---- MODULE Spec2Model ----
(***************************************************************************)
(* A model of zip_extractor.py: the archive extractor (extract), the       *)
(* orchestrator (the __main__ block) and the timed runner (run_utility     *)
(* under the timer and timeout decorators).                                *)
(*                                                                         *)
(* Python strings are sequences of one-character strings, so that          *)
(* splitting, joining, extension stripping and substring tests are         *)
(* computed the way the code computes them.  A filesystem path is the      *)
(* sequence of its components, counted from the root directory.            *)
(***************************************************************************)
EXTENDS Integers, Sequences, FiniteSets, TLC

\* ------------------------------------------------------------------------
\* Bounds of the model
\* ------------------------------------------------------------------------

\* Largest number of entries of a generated outer archive.
MaxEntries == 2

\* Largest number of files in the working directory when the script starts.
MaxFiles == 2

\* Largest number of steps of an updater process before it exits.
MaxChildSteps == 3

\* Number of lines a pipe holds before a write to it blocks.
PipeCap == 2

\* ------------------------------------------------------------------------
\* String primitives
\* ------------------------------------------------------------------------

RECURSIVE SplitFrom(_, _, _, _)
\* str.split(sep) for a one-character separator, scanning from index i.
SplitFrom(s, sep, i, cur) ==
  IF i > Len(s) THEN <<cur>>
  ELSE IF s[i] = sep THEN <<cur>> \o SplitFrom(s, sep, i + 1, <<>>)
  ELSE SplitFrom(s, sep, i + 1, Append(cur, s[i]))

\* str.split("/")
Split(s, sep) == SplitFrom(s, sep, 1, <<>>)

RECURSIVE Join(_, _)
\* sep.join(parts)
Join(parts, sep) ==
  IF parts = <<>> THEN <<>>
  ELSE IF Len(parts) = 1 THEN parts[1]
  ELSE parts[1] \o sep \o Join(Tail(parts), sep)

\* str.rfind(c) + 1: the last index of character c in s, 0 when absent.
LastIndexOf(s, c) ==
  LET hits == {i \in 1..Len(s) : s[i] = c}
  IN IF hits = {} THEN 0 ELSE CHOOSE i \in hits : \A j \in hits : j <= i

\* posixpath.splitext: <<root, ext>>; leading dots of the last component
\* do not start an extension.
Splitext(p) ==
  LET sepIndex == LastIndexOf(p, "/")
      dotIndex == LastIndexOf(p, ".")
  IN IF /\ dotIndex > sepIndex
        /\ \E j \in (sepIndex + 1)..(dotIndex - 1) : p[j] # "."
     THEN <<SubSeq(p, 1, dotIndex - 1), SubSeq(p, dotIndex, Len(p))>>
     ELSE <<p, <<>>>>

\* str.lower on the letters the model's names use in upper case.
LowerChar(c) ==
  CASE c = "Z" -> "z" [] c = "I" -> "i" [] c = "P" -> "p" [] c = "F" -> "f"
    [] OTHER -> c

Lower(s) == [i \in 1..Len(s) |-> LowerChar(s[i])]

\* substring in string
Contains(s, sub) ==
  \E i \in 0..(Len(s) - Len(sub)) : SubSeq(s, i + 1, i + Len(sub)) = sub

\* s.endswith(c) for one character
EndsWith(s, c) == Len(s) > 0 /\ s[Len(s)] = c

\* ------------------------------------------------------------------------
\* mimetypes.guess_type
\* ------------------------------------------------------------------------

ZipType == "application/zip"

\* The entries of mimetypes.types_map the model's names can hit.
TypesMap(ext) ==
  CASE ext = <<".", "z", "i", "p">> -> ZipType
    [] ext = <<".", "t", "x", "t">> -> "text/plain"
    [] ext = <<".", "s", "h">> -> "application/x-sh"
    [] OTHER -> "None"

\* The entry of mimetypes.encodings_map the model's names can hit.
EncodingsMap(ext) == IF ext = <<".", "g", "z">> THEN "gzip" ELSE "None"

\* mimetypes.guess_type(name)[0]: an encoding suffix is stripped first and
\* the extension is looked up in lower case.
GuessType(name) ==
  LET first == Splitext(name)
      inner == IF EncodingsMap(first[2]) # "None"
               THEN Splitext(first[1]) ELSE first
  IN TypesMap(Lower(inner[2]))

\* ------------------------------------------------------------------------
\* Filesystem
\* ------------------------------------------------------------------------

\* os.getcwd(): the working directory /w, as a path and as a string.
Cwd == << <<"w">> >>

CwdStr == <<"/", "w">>

\* Permission bits: what open(..., "wb") leaves under the usual umask, and
\* the 0o775 of the chmod call.
ModeDefault == 6 * 64 + 4 * 8 + 4

Mode775 == 7 * 64 + 7 * 8 + 5

\* File contents.  A blob is opaque bytes; a zip is bytes that parse as an
\* archive with a name list and, per name, the bytes read() returns.
Blob(id) == [zip |-> FALSE, id |-> id, names |-> <<>>, data |-> <<>>]

Zip(names, data) == [zip |-> TRUE, id |-> <<>>, names |-> names, data |-> data]

DirNode == [kind |-> "dir", data |-> Blob(<<>>), mode |-> Mode775]

FileNode(bytes) == [kind |-> "file", data |-> bytes, mode |-> ModeDefault]

IsDirAt(f, p) == p \in DOMAIN f /\ f[p].kind = "dir"

IsFileAt(f, p) == p \in DOMAIN f /\ f[p].kind = "file"

Parent(p) == SubSeq(p, 1, Len(p) - 1)

RECURSIVE LexFold(_, _, _)
\* os.path.normpath applied over a base directory: "" and "." vanish and
\* ".." drops the last component.
LexFold(comps, i, acc) ==
  IF i > Len(comps) THEN acc
  ELSE IF comps[i] = <<>> \/ comps[i] = <<".">> THEN LexFold(comps, i + 1, acc)
  ELSE IF comps[i] = <<".", ".">>
       THEN LexFold(comps, i + 1, IF acc = <<>> THEN acc ELSE Parent(acc))
  ELSE LexFold(comps, i + 1, Append(acc, comps[i]))

\* The path a string names, relative strings being taken from Cwd.
AbsPath(s) ==
  IF Len(s) > 0 /\ s[1] = "/" THEN LexFold(Split(s, "/"), 1, <<>>)
  ELSE LexFold(Split(s, "/"), 1, Cwd)

RECURSIVE OSFold(_, _, _, _)
\* Kernel path lookup: every component is looked up in a directory that
\* exists, so a/../x fails when a is missing and f/ fails when f is a file.
OSFold(f, comps, i, acc) ==
  IF i > Len(comps) THEN [ok |-> acc \in DOMAIN f, path |-> acc]
  ELSE IF ~IsDirAt(f, acc) THEN [ok |-> FALSE, path |-> acc]
  ELSE IF comps[i] = <<>> \/ comps[i] = <<".">> THEN OSFold(f, comps, i + 1, acc)
  ELSE IF comps[i] = <<".", ".">>
       THEN OSFold(f, comps, i + 1, IF acc = <<>> THEN acc ELSE Parent(acc))
  ELSE OSFold(f, comps, i + 1, Append(acc, comps[i]))

OSLookup(f, s) ==
  IF Len(s) > 0 /\ s[1] = "/" THEN OSFold(f, Split(s, "/"), 1, <<>>)
  ELSE OSFold(f, Split(s, "/"), 1, Cwd)

\* os.path.exists / os.path.isdir
PathExists(f, s) == OSLookup(f, s).ok

PathIsDir(f, s) == LET r == OSLookup(f, s) IN r.ok /\ f[r.path].kind = "dir"

RECURSIVE MakedirsFrom(_, _, _)
\* mkdir -p: create every missing prefix of p; fails on a prefix that is a
\* file.  The result keeps what was created before the failure.
MakedirsFrom(f, p, i) ==
  IF i > Len(p) THEN [ok |-> TRUE, fs |-> f]
  ELSE LET pre == SubSeq(p, 1, i)
       IN IF pre \in DOMAIN f
          THEN IF f[pre].kind = "dir" THEN MakedirsFrom(f, p, i + 1)
               ELSE [ok |-> FALSE, fs |-> f]
          ELSE MakedirsFrom((pre :> DirNode) @@ f, p, i + 1)

Makedirs(f, p) == MakedirsFrom(f, p, 1)

\* ------------------------------------------------------------------------
\* zipfile: member extraction
\* ------------------------------------------------------------------------

\* A path component zipfile drops from a member name before extracting.
InvalidPathPart(c) == c = <<>> \/ c = <<".">> \/ c = <<".", ".">>

\* ZipFile._extract_member: the member name as the components it is
\* written under ("", "." and ".." are removed, so is a leading "/").
Sanitize(name) == SelectSeq(Split(name, "/"), LAMBDA c : ~InvalidPathPart(c))

\* ZipInfo.is_dir
MemberIsDir(name) == EndsWith(name, "/")

\* ZipFile.extract(name, path) with path resolved to the directory base:
\* missing upper directories are created, a directory member is made with
\* mkdir, a file member is written with open(target, "wb").  ok is FALSE
\* when the call raises (a file where a directory is needed, or a
\* directory where the file is to be written).
ExtractMember(f, base, name, bytes) ==
  LET target == base \o Sanitize(name)
      upper  == IF target = <<>> THEN <<>> ELSE Parent(target)
      up     == IF upper \in DOMAIN f THEN [ok |-> TRUE, fs |-> f]
                ELSE Makedirs(f, upper)
  IN IF ~up.ok THEN up
     ELSE IF MemberIsDir(name)
          THEN IF IsDirAt(up.fs, target) THEN up
               ELSE IF target \in DOMAIN up.fs \/ ~IsDirAt(up.fs, upper)
                    THEN [ok |-> FALSE, fs |-> up.fs]
                    ELSE [ok |-> TRUE, fs |-> (target :> DirNode) @@ up.fs]
          ELSE IF IsDirAt(up.fs, target) \/ ~IsDirAt(up.fs, upper)
               THEN [ok |-> FALSE, fs |-> up.fs]
               ELSE [ok |-> TRUE, fs |-> (target :> FileNode(bytes)) @@ up.fs]

RECURSIVE ExtractMembers(_, _, _, _)
\* Extract the members names[i..] of archive a under base, one after the
\* other, each looked up by its name; stops at the first one that raises.
ExtractMembers(f, base, a, i) ==
  IF i > Len(a.names) THEN [ok |-> TRUE, fs |-> f]
  ELSE LET r == ExtractMember(f, base, a.names[i], a.data[a.names[i]])
       IN IF r.ok THEN ExtractMembers(r.fs, base, a, i + 1) ELSE r

\* ------------------------------------------------------------------------
\* Names and archives the model draws its inputs from
\* ------------------------------------------------------------------------

N_a == <<"a">>

N_dot_a == <<".", "/", "a">>

N_up_x == <<".", ".", "/", "x">>

N_p == <<"p", "/">>

N_izip == <<"i", ".", "z", "i", "p">>

N_p_izip == <<"p", "/", "i", ".", "z", "i", "p">>

N_pq_izip == <<"p", "/", "q", "/", "i", ".", "z", "i", "p">>

N_m == <<"m">>

N_z == <<"z">>

N_dzip == <<"d", ".", "z", "i", "p">>

\* The updater script name of the vendor table.
SocflashName ==
  <<"s", "o", "c", "f", "l", "a", "s", "h", "_", "U", "p", "d", "a", "t", "e",
    ".", "s", "h">>

\* A zip holding one plain member, and a zip holding a plain member named
\* like an outer entry together with a zip of its own (a second level).
DeepZip == Zip(<<N_z>>, (N_z :> Blob(<<"deep">>)))

InnerOne == Zip(<<N_m>>, (N_m :> Blob(<<"inner", "m">>)))

InnerTwo ==
  Zip(<<N_a, N_dzip>>, (N_a :> Blob(<<"inner", "a">>)) @@ (N_dzip :> DeepZip))

Junk == Blob(<<"junk">>)

\* Bytes an entry named *.zip may hold: two archives, or bytes that are no
\* archive at all.
ZipPayloads == {InnerOne, InnerTwo, Junk}

\* Entry names of generated outer archives.
EntryNames == {N_a, N_dot_a, N_up_x, N_p, N_izip, N_p_izip, N_pq_izip}

\* Sequences over S of length at most n.
SeqsUpTo(S, n) == UNION {[1..k -> S] : k \in 0..n}

Range(s) == {s[i] : i \in 1..Len(s)}

\* The archives with the given name list: a plain entry holds bytes of its
\* own, a *.zip entry any of ZipPayloads.
ArchivesNamed(names) ==
  LET zips == {n \in Range(names) : GuessType(n) = ZipType}
  IN {Zip(names, [n \in Range(names) |->
                    IF n \in zips THEN pl[n] ELSE Blob(<<"outer">> \o n)]) :
        pl \in [zips -> ZipPayloads]}

OuterArchives == UNION {ArchivesNamed(ns) : ns \in SeqsUpTo(EntryNames, MaxEntries)}

\* Names extract is called with.
F_zip == <<"f", ".", "z", "i", "p">>

F_ZIP == <<"F", ".", "Z", "I", "P">>

F_txt == <<"f", ".", "t", "x", "t">>

F_zip_gz == <<"f", ".", "z", "i", "p", ".", "g", "z">>

F_bare == <<"f">>

FileNames == {F_zip, F_ZIP, F_txt, F_zip_gz, F_bare}

\* ------------------------------------------------------------------------
\* State
\* ------------------------------------------------------------------------

VARIABLES
  pc,            \* the statement the interpreter is at
  fs,            \* the filesystem: path -> node
  exc,           \* the exception in flight, "None" when there is none
  out,           \* what was printed on the console, in order
  exitCode,      \* the exit status of the process, -1 while it runs
  clock,         \* wall-clock time in seconds since the process started
  result,        \* the value extract returned / result of the main block
  filename,      \* extract: its argument
  z,             \* extract: the outer archive once opened
  idx,           \* extract: index of the entry the scan is at
  opens,         \* names successfully opened as a ZipFile, in order
  extractCalls,  \* number of calls of extract so far
  fsAtCall,      \* the filesystem as it was when extract was called
  dmiPresent,    \* whether which('dmidecode') finds the utility
  version,       \* main: version
  manufacturer,  \* main: manufacturer
  product_name,  \* main: product_name
  filenames,     \* main: filename, the listing tokens holding the product
  utility,       \* main: utility
  resIdx,        \* main: index of res in result
  walkStack,     \* main: directories os.walk has still to yield, in order
  alarm,         \* time the pending SIGALRM fires at, -1 when none is pending
  startTime,     \* timer: start
  child,         \* the updater process: its state, the steps it has left, its status
  stdoutPipe,    \* lines written to the child's stdout and not read yet
  stdoutOpen,    \* whether the child still holds its stdout open
  stderrPipe,    \* lines written to the child's stderr (nobody reads them)
  line,          \* run_utility: line
  log,           \* lines of /tmp/output.log appended by this process
  launched       \* paths handed to subprocess.Popen by run_utility, in order

extractVars == <<filename, z, idx, opens, extractCalls, fsAtCall>>

probeVars == <<dmiPresent, version, manufacturer, product_name>>

searchVars == <<filenames, utility, resIdx, walkStack>>

runVars ==
  <<alarm, startTime, child, stdoutPipe, stdoutOpen, stderrPipe, line, log,
    launched>>

vars ==
  <<pc, fs, exc, out, exitCode, clock, result, extractVars, probeVars,
    searchVars, runVars>>

\* The value None where a list of paths is expected, and a returned list.
NoneResult == [none |-> TRUE, paths |-> <<>>]

Paths(ps) == [none |-> FALSE, paths |-> ps]

\* The value None where a string is expected.
NoneStr == <<"None">>

\* No archive opened yet.
NoArchive == Blob(<<>>)

\* No alarm pending, and no start time taken.
NoAlarm == 0 - 1

NoTime == 0 - 1

\* No child process, and no line read.
\* p.returncode before the exit status is known (statuses are below 256).
NoStatus == 255 + 1

NoChild == [state |-> "none", script |-> <<>>, written |-> 0, status |-> NoStatus]

NoLine == [n |-> 0, bad |-> FALSE]

\* ------------------------------------------------------------------------
\* extract(filename)                                  zip_extractor.py 84-107
\* ------------------------------------------------------------------------

\* A type check that lets every path through.
AcceptsAnyPath(name) == TRUE

\* Line 88: the path is accepted when its guessed type is the zip type.
AcceptsPath(name) == GuessType(name) = ZipType

\* Line 96: "".join(os.path.splitext(f)[0].split("/")[:-1])
Dirname(f) ==
  LET parts == Split(Splitext(f)[1], "/")
  IN Join(SubSeq(parts, 1, Len(parts) - 1), <<>>)

\* A result list that leaves out the entries handled as nested archives.
ResultPathsOfPlainEntries(names) ==
  LET plain == SelectSeq(names, LAMBDA n : GuessType(n) # ZipType)
  IN [i \in 1..Len(plain) |-> CwdStr \o <<"/">> \o plain[i]]

\* Line 106: one "%s/%s" % (cwd, res) per name of the name list.
ResultPaths(names) == [i \in 1..Len(names) |-> CwdStr \o <<"/">> \o names[i]]

\* An extractall that passes over the entries the scan unpacked.
PlainMembersOnly(a) ==
  [a EXCEPT !.names = SelectSeq(a.names, LAMBDA n : GuessType(n) # ZipType)]

\* Line 105: extractall() without arguments extracts every member of the
\* outer archive.
ExtractallMembers(a) == a

\* An extraction that also unpacks a member that is itself an archive.
ExtractInnerDeep(f, base, content) ==
  LET r == ExtractMembers(f, base, content, 1)
      deep == {m \in Range(content.names) : content.data[m].zip}
  IN IF r.ok /\ deep # {}
     THEN ExtractMembers(r.fs, base, content.data[CHOOSE m \in deep : TRUE], 1)
     ELSE r

\* Lines 102-103: every member of the inner archive is extracted into the
\* directory as it is, a member that is an archive like any other file.
ExtractInner(f, base, content) == ExtractMembers(f, base, content, 1)

\* Lines 85-89: the type check of the argument; None for a path that is
\* not guessed to be a zip.
ExtractBegin ==
  /\ pc = "extract"
  /\ extractCalls' = extractCalls + 1
  /\ fsAtCall' = fs
  /\ IF AcceptsPath(filename)
     THEN pc' = "extract_open" /\ UNCHANGED result
     ELSE pc' = "check_result" /\ result' = NoneResult
  /\ UNCHANGED <<fs, exc, out, exitCode, clock, filename, z, idx, opens>>
  /\ UNCHANGED <<probeVars, searchVars, runVars>>

\* Line 90: zipfile.ZipFile(filename) raises for a missing file, for a
\* directory and for bytes that are no archive.
ExtractOpen ==
  /\ pc = "extract_open"
  /\ LET r == OSLookup(fs, filename)
     IN IF ~r.ok
        THEN /\ exc' = "FileNotFoundError" /\ pc' = "raised"
             /\ UNCHANGED <<z, idx, opens>>
        ELSE IF fs[r.path].kind = "dir"
        THEN /\ exc' = "IsADirectoryError" /\ pc' = "raised"
             /\ UNCHANGED <<z, idx, opens>>
        ELSE IF ~fs[r.path].data.zip
        THEN /\ exc' = "BadZipFile" /\ pc' = "raised"
             /\ UNCHANGED <<z, idx, opens>>
        ELSE /\ z' = fs[r.path].data
             /\ idx' = 1
             /\ opens' = Append(opens, filename)
             /\ pc' = "extract_scan"
             /\ UNCHANGED exc
  /\ UNCHANGED <<fs, out, exitCode, clock, result, filename, extractCalls,
                 fsAtCall>>
  /\ UNCHANGED <<probeVars, searchVars, runVars>>

\* Lines 91-103, one iteration of the entry scan: an entry not guessed to
\* be a zip is skipped; for a zip entry the directory is made (parents
\* included, an existing directory accepted), the entry's bytes are opened
\* as an archive and every member of it is extracted into the directory.
ExtractScan ==
  /\ pc = "extract_scan"
  /\ idx <= Len(z.names)
  /\ LET f == z.names[idx]
         dirname == Dirname(f)
         made == Makedirs(fs, AbsPath(dirname))
         content == z.data[f]
         inner == ExtractInner(made.fs, AbsPath(dirname), content)
     IN IF GuessType(f) # ZipType
        THEN /\ idx' = idx + 1
             /\ UNCHANGED <<pc, fs, exc, opens>>
        ELSE IF ~made.ok
        THEN /\ exc' = "FileExistsError" /\ pc' = "raised" /\ fs' = made.fs
             /\ UNCHANGED <<idx, opens>>
        ELSE IF ~content.zip
        THEN /\ exc' = "BadZipFile" /\ pc' = "raised" /\ fs' = made.fs
             /\ UNCHANGED <<idx, opens>>
        ELSE IF ~inner.ok
        THEN /\ exc' = "OSError" /\ pc' = "raised" /\ fs' = inner.fs
             /\ opens' = Append(opens, f)
             /\ UNCHANGED idx
        ELSE /\ fs' = inner.fs
             /\ opens' = Append(opens, f)
             /\ idx' = idx + 1
             /\ UNCHANGED <<pc, exc>>
  /\ UNCHANGED <<out, exitCode, clock, result, filename, z, extractCalls,
                 fsAtCall>>
  /\ UNCHANGED <<probeVars, searchVars, runVars>>

\* Lines 104-105: the else clause of the loop, which has no break, runs
\* once the scan is over: z.extractall() into the working directory.
ExtractAll ==
  /\ pc = "extract_scan"
  /\ idx > Len(z.names)
  /\ LET r == ExtractMembers(fs, Cwd, ExtractallMembers(z), 1)
     IN /\ fs' = r.fs
        /\ IF r.ok THEN pc' = "extract_result" /\ UNCHANGED exc
           ELSE pc' = "raised" /\ exc' = "OSError"
  /\ UNCHANGED <<out, exitCode, clock, result, extractVars>>
  /\ UNCHANGED <<probeVars, searchVars, runVars>>

\* Lines 106-107: the returned list.
ExtractReturn ==
  /\ pc = "extract_result"
  /\ result' = Paths(ResultPaths(z.names))
  /\ pc' = "check_result"
  /\ UNCHANGED <<fs, exc, out, exitCode, clock, extractVars>>
  /\ UNCHANGED <<probeVars, searchVars, runVars>>

\* ------------------------------------------------------------------------
\* Subprocesses and the hardware probe                 zip_extractor.py 20-82
\* ------------------------------------------------------------------------

\* Line 20
GLOBAL_TIMEOUT == 1800

\* The time one sleep of a process takes.
SleepLen == GLOBAL_TIMEOUT \div 2

\* Times a subprocess started by run() may take: a second, or longer than
\* subprocess.run(timeout=GLOBAL_TIMEOUT) allows.
RunDurations == {1, GLOBAL_TIMEOUT + 1}

\* Lines 60-66
valid_keywords ==
  {"bios-vendor", "bios-version", "bios-release-date",
   "system-manufacturer", "system-product-name", "system-version",
   "system-serial-number", "system-uuid",
   "baseboard-manufacturer", "baseboard-product-name", "baseboard-version",
   "baseboard-serial-number", "baseboard-asset-tag",
   "chassis-manufacturer", "chassis-type", "chassis-version",
   "chassis-serial-number", "chassis-asset-tag",
   "processor-family", "processor-manufacturer", "processor-version",
   "processor-frequency"}

\* Lines 58-73: what a call of dmidecode(string) comes to.  An unknown
\* keyword prints an error and returns None; with no dmidecode on the
\* search path which() gives None and run([None, '-s', string]) raises
\* TypeError; else the trimmed output of the utility is returned.
DmidecodeOutcome(string, present) ==
  IF string \notin valid_keywords THEN "None"
  ELSE IF ~present THEN "TypeError"
  ELSE "output"

\* Lines 53-56 and 70-73: control, exception and clock after a call of
\* dmidecode(keyword) whose subprocess takes d seconds.
DmidecodeCall(keyword, d, next) ==
  IF DmidecodeOutcome(keyword, dmiPresent) = "TypeError"
  THEN pc' = "raised" /\ exc' = "TypeError" /\ UNCHANGED clock
  ELSE IF d > GLOBAL_TIMEOUT
  THEN pc' = "raised" /\ exc' = "TimeoutExpired" /\ clock' = clock + GLOBAL_TIMEOUT
  ELSE pc' = next /\ UNCHANGED exc /\ clock' = clock + d

DmidecodeReturns(keyword, d) ==
  DmidecodeOutcome(keyword, dmiPresent) = "output" /\ d <= GLOBAL_TIMEOUT

\* What the firmware may report.
BiosVersions == {"F1"}

GigabyteVendor == "Gigabyte Technology Co., Ltd."

Vendors == {GigabyteVendor, "gigabyte technology co., ltd.", "ASUSTeK COMPUTER INC."}

Product_X == <<"X">>

Products == {Product_X, <<>>}

\* Line 137: version = get_bios_version()
ProbeVersion ==
  /\ pc = "probe_version"
  /\ \E d \in RunDurations :
       /\ DmidecodeCall("bios-version", d, "probe_manufacturer")
       /\ IF DmidecodeReturns("bios-version", d)
          THEN version' \in BiosVersions ELSE UNCHANGED version
  /\ UNCHANGED <<fs, out, exitCode, result, extractVars, dmiPresent,
                 manufacturer, product_name, searchVars, runVars>>

\* Line 138: manufacturer = get_manufacturer()
ProbeManufacturer ==
  /\ pc = "probe_manufacturer"
  /\ \E d \in RunDurations :
       /\ DmidecodeCall("baseboard-manufacturer", d, "probe_product")
       /\ IF DmidecodeReturns("baseboard-manufacturer", d)
          THEN manufacturer' \in Vendors ELSE UNCHANGED manufacturer
  /\ UNCHANGED <<fs, out, exitCode, result, extractVars, dmiPresent, version,
                 product_name, searchVars, runVars>>

\* Line 139: product_name = get_product_name()
ProbeProduct ==
  /\ pc = "probe_product"
  /\ \E d \in RunDurations :
       /\ DmidecodeCall("system-product-name", d, "listing")
       /\ IF DmidecodeReturns("system-product-name", d)
          THEN product_name' \in Products ELSE UNCHANGED product_name
  /\ UNCHANGED <<fs, out, exitCode, result, extractVars, dmiPresent, version,
                 manufacturer, searchVars, runVars>>

\* ------------------------------------------------------------------------
\* Orchestrator                                      zip_extractor.py 125-163
\* ------------------------------------------------------------------------

\* Lines 128-129: index of the first string holding substring; 0 stands
\* for next() raising StopIteration when there is none.
FirstSubstring(strings, substring) ==
  LET hits == {i \in 1..Len(strings) : Contains(strings[i], substring)}
  IN IF hits = {} THEN 0 ELSE CHOOSE i \in hits : \A j \in hits : i <= j

\* A table lookup that ignores the case of letters.
GetManufacturerUtilityAnyCase(m) ==
  IF m \in {GigabyteVendor, "gigabyte technology co., ltd."} THEN SocflashName
  ELSE NoneStr

\* Lines 131-134
GetManufacturerUtility(m) == IF m = GigabyteVendor THEN SocflashName ELSE NoneStr

\* A vendor check that never fires.
VendorNeverUnsupported(u) == FALSE

\* Line 145: if utility == None
VendorUnsupported(u) == u = NoneStr

\* The paths directly inside directory p.
Children(f, p) ==
  {q \in DOMAIN f : Len(q) = Len(p) + 1 /\ SubSeq(q, 1, Len(p)) = p}

\* The orders the names of a directory may come in.
Orderings(S) ==
  {s \in [1..Cardinality(S) -> S] : \A i, j \in 1..Cardinality(S) : s[i] = s[j] => i = j}

\* The characters of file names in the order of their byte values, and in
\* the order of a dictionary (a letter in lower case before the same letter
\* in upper case): which of the two ls sorts by depends on the locale.
ByteOrder ==
  <<"-", ".", "/", "F", "I", "P", "U", "X", "Z", "_", "a", "b", "c", "d", "e",
    "f", "g", "h", "i", "k", "l", "m", "n", "o", "p", "q", "r", "s", "t", "u",
    "w", "x", "z">>

DictionaryOrder ==
  <<"-", ".", "/", "_", "a", "b", "c", "d", "e", "f", "F", "g", "h", "i", "I",
    "k", "l", "m", "n", "o", "p", "P", "q", "r", "s", "t", "u", "U", "w", "x",
    "X", "z", "Z">>

Collations == {ByteOrder, DictionaryOrder}

\* String a sorts before string b under a collation.
SortsBefore(coll, a, b) ==
  LET rank(c) == CHOOSE i \in 1..Len(coll) : coll[i] = c
      shorter == IF Len(a) < Len(b) THEN Len(a) ELSE Len(b)
      diff == {i \in 1..shorter : a[i] # b[i]}
  IN IF diff = {} THEN Len(a) < Len(b)
     ELSE LET i == CHOOSE k \in diff : \A j \in diff : k <= j
          IN rank(a[i]) < rank(b[i])

\* ls lists the names of a directory sorted.
LsOrder(S, coll) ==
  CHOOSE s \in Orderings(S) :
    \A i, j \in 1..Len(s) : i < j => SortsBefore(coll, s[i], s[j])

RECURSIVE LsTokens(_)
\* The words of `ls -l` for the names in order: a total line, then per
\* name its permissions and itself (the columns between hold neither a
\* product name nor ".zip").
LsTokens(order) ==
  IF order = <<>> THEN << <<"t", "o", "t", "a", "l">> >>
  ELSE LsTokens(SubSeq(order, 1, Len(order) - 1))
         \o << <<"-", "r", "w", "-", "r", "-", "-", "r", "-", "-">>,
               order[Len(order)] >>

DotZip == <<".", "z", "i", "p">>

\* Lines 140-143: cwd, the listing tokens that hold the product name, and
\* result = None.
MainListing ==
  /\ pc = "listing"
  /\ \E d \in RunDurations :
       \E coll \in Collations :
         LET order == LsOrder({q[Len(q)] : q \in Children(fs, Cwd)}, coll) IN
         IF d > GLOBAL_TIMEOUT
         THEN /\ pc' = "raised" /\ exc' = "TimeoutExpired"
              /\ clock' = clock + GLOBAL_TIMEOUT
              /\ UNCHANGED <<filenames, result>>
         ELSE /\ filenames' = SelectSeq(LsTokens(order),
                                        LAMBDA t : Contains(t, product_name))
              /\ result' = NoneResult
              /\ clock' = clock + d
              /\ pc' = "resolve"
              /\ UNCHANGED exc
  /\ UNCHANGED <<fs, out, exitCode, extractVars, probeVars, utility, resIdx,
                 walkStack, runVars>>

\* Lines 144-147: the updater name of the vendor; exit 1 when there is none.
MainResolve ==
  /\ pc = "resolve"
  /\ utility' = GetManufacturerUtility(manufacturer)
  /\ IF VendorUnsupported(utility')
     THEN /\ out' = Append(out, [kind |-> "unsupported", name |-> <<manufacturer>>])
          /\ exitCode' = 1
          /\ pc' = "terminated"
     ELSE /\ pc' = "find_archive"
          /\ UNCHANGED <<out, exitCode>>
  /\ UNCHANGED <<fs, exc, clock, result, extractVars, probeVars, filenames,
                 resIdx, walkStack, runVars>>

\* Lines 148-150: with a token at hand, the first one holding ".zip" is
\* handed to extract; next() raises StopIteration when none holds it.
MainFindArchive ==
  /\ pc = "find_archive"
  /\ IF Len(filenames) > 0
     THEN IF FirstSubstring(filenames, DotZip) = 0
          THEN pc' = "raised" /\ exc' = "StopIteration" /\ UNCHANGED filename
          ELSE /\ filename' = filenames[FirstSubstring(filenames, DotZip)]
               /\ pc' = "extract"
               /\ UNCHANGED exc
     ELSE pc' = "check_result" /\ UNCHANGED <<exc, filename>>
  /\ UNCHANGED <<fs, out, exitCode, clock, result, z, idx, opens,
                 extractCalls, fsAtCall, probeVars, searchVars, runVars>>

\* Lines 151-153: exit 1 when there is no result, else enter the loop of
\* line 154.
MainCheckResult ==
  /\ pc = "check_result"
  /\ IF result.none
     THEN /\ out' = Append(out, [kind |-> "unsupported", name |-> product_name])
          /\ exitCode' = 1
          /\ pc' = "terminated"
          /\ UNCHANGED resIdx
     ELSE /\ resIdx' = 1
          /\ pc' = "for_res"
          /\ UNCHANGED <<out, exitCode>>
  /\ UNCHANGED <<fs, exc, clock, result, extractVars, probeVars, filenames,
                 utility, walkStack, runVars>>

\* Lines 154-158: the next res; one that is no directory is passed over,
\* for a directory os.walk(cwd) is started.  Falling off the loop ends the
\* script with status 0.
MainNextRes ==
  /\ pc = "for_res"
  /\ IF resIdx > Len(result.paths)
     THEN /\ exitCode' = 0 /\ pc' = "terminated"
          /\ UNCHANGED <<resIdx, walkStack>>
     ELSE IF ~PathIsDir(fs, result.paths[resIdx])
     THEN /\ resIdx' = resIdx + 1
          /\ UNCHANGED <<pc, exitCode, walkStack>>
     ELSE /\ walkStack' = <<CwdStr>>
          /\ pc' = "walk"
          /\ UNCHANGED <<exitCode, resIdx>>
  /\ UNCHANGED <<fs, exc, out, clock, result, extractVars, probeVars,
                 filenames, utility, runVars>>

\* chmod(path, mode)
Chmod(f, p, mode) == [f EXCEPT ![p].mode = mode]

\* A match that leaves the name searched for as it is.
UtilityKeptAtMatch(u, path) == u

\* Line 160: the path of the match is assigned to utility itself, the name
\* the walk compares with.
UtilityAtMatch(u, path) == path

\* Lines 158-162, one directory of the walk (top down, in listing order):
\* when utility is among its files, utility becomes the path of the first
\* file whose name holds it, the file is made 0o775 and run_utility is
\* called; else the walk goes on with the subdirectories.  A walk that is
\* exhausted moves to the next res.
MainWalk ==
  /\ pc = "walk"
  /\ IF walkStack = <<>>
     THEN /\ resIdx' = resIdx + 1
          /\ pc' = "for_res"
          /\ UNCHANGED <<fs, utility, walkStack>>
     ELSE LET root == Head(walkStack)
              kids == Children(fs, AbsPath(root))
              fileNames == {q[Len(q)] : q \in {k \in kids : fs[k].kind = "file"}}
              dirNames == {q[Len(q)] : q \in {k \in kids : fs[k].kind = "dir"}}
          IN \E files \in Orderings(fileNames), dirs \in Orderings(dirNames) :
               IF \E i \in 1..Len(files) : files[i] = utility
               THEN LET path == root \o <<"/">> \o files[FirstSubstring(files, utility)]
                    IN /\ utility' = UtilityAtMatch(utility, path)
                       /\ fs' = Chmod(fs, AbsPath(path), Mode775)
                       /\ pc' = "timer_start"
                       /\ UNCHANGED <<resIdx, walkStack>>
               ELSE /\ walkStack' = [i \in 1..Len(dirs) |-> root \o <<"/">> \o dirs[i]]
                                      \o Tail(walkStack)
                    /\ UNCHANGED <<pc, fs, utility, resIdx>>
  /\ UNCHANGED <<exc, out, exitCode, clock, result, extractVars, probeVars,
                 filenames, runVars>>

\* Line 163: break leaves the walk, not the loop over result.
MainBreak ==
  /\ pc = "loop_break"
  /\ walkStack' = <<>>
  /\ resIdx' = resIdx + 1
  /\ pc' = "for_res"
  /\ UNCHANGED <<fs, exc, out, exitCode, clock, result, extractVars,
                 probeVars, filenames, utility, runVars>>

\* No statement of the script catches an exception: the interpreter prints
\* the traceback and exits with status 1.
MainUncaught ==
  /\ pc = "raised"
  /\ out' = Append(out, [kind |-> "traceback", name |-> <<exc>>])
  /\ exitCode' = 1
  /\ pc' = "terminated"
  /\ UNCHANGED <<fs, exc, clock, result, extractVars, probeVars, searchVars,
                 runVars>>

\* ------------------------------------------------------------------------
\* The updater process
\* ------------------------------------------------------------------------

\* What an updater does, step by step: write a line to stdout ("out"), a
\* line that is no valid UTF-8 ("bad"), a line to stderr ("err"), sleep,
\* or close its stdout; at the end of its steps it exits.
ChildOps == {"out", "bad", "err", "sleep", "close"}

ChildScripts == SeqsUpTo(ChildOps, MaxChildSteps)

\* The statuses an updater may exit with.
ExitStatuses == {0, 1}

\* run_utility is between subprocess.Popen and its return.
ChildAttached == pc \in {"loop_open", "readline", "write_line", "wait", "timeout_finally"}

\* The pending alarm has reached its time: the handler runs before any
\* further statement.
AlarmDue == alarm # NoAlarm /\ clock >= alarm

ChildCanStep ==
  /\ child.state = "running"
  /\ ChildAttached
  /\ ~AlarmDue

ChildNext(op) == child.script # <<>> /\ Head(child.script) = op

\* The child writes a line to its stdout; the write blocks while the pipe
\* is full, and fails once the child has closed that stream: the child
\* gives up with status 1.
ChildWriteOut ==
  /\ ChildCanStep
  /\ ChildNext("out") \/ ChildNext("bad")
  /\ IF stdoutOpen
     THEN /\ Len(stdoutPipe) < PipeCap
          /\ stdoutPipe' = Append(stdoutPipe, [n |-> child.written + 1,
                                               bad |-> ChildNext("bad")])
          /\ child' = [child EXCEPT !.script = Tail(@), !.written = @ + 1]
     ELSE /\ child' = [child EXCEPT !.state = "exited", !.script = <<>>,
                                    !.status = 1]
          /\ UNCHANGED stdoutPipe
  /\ UNCHANGED <<pc, fs, exc, out, exitCode, clock, result, extractVars,
                 probeVars, searchVars, alarm, startTime, stdoutOpen,
                 stderrPipe, line, log, launched>>

\* The child writes a line to its stderr; the write blocks while the pipe
\* is full.
ChildWriteErr ==
  /\ ChildCanStep
  /\ ChildNext("err")
  /\ Len(stderrPipe) < PipeCap
  /\ stderrPipe' = Append(stderrPipe, [n |-> child.written + 1, bad |-> FALSE])
  /\ child' = [child EXCEPT !.script = Tail(@), !.written = @ + 1]
  /\ UNCHANGED <<pc, fs, exc, out, exitCode, clock, result, extractVars,
                 probeVars, searchVars, alarm, startTime, stdoutPipe,
                 stdoutOpen, line, log, launched>>

\* The child sleeps: time passes, up to the moment the alarm is due.
ChildSleep ==
  /\ ChildCanStep
  /\ ChildNext("sleep")
  /\ IF alarm # NoAlarm /\ clock + SleepLen > alarm
     THEN clock' = alarm /\ UNCHANGED child
     ELSE clock' = clock + SleepLen /\ child' = [child EXCEPT !.script = Tail(@)]
  /\ UNCHANGED <<pc, fs, exc, out, exitCode, result, extractVars, probeVars,
                 searchVars, alarm, startTime, stdoutPipe, stdoutOpen,
                 stderrPipe, line, log, launched>>

\* The child closes its stdout and goes on.
ChildCloseOut ==
  /\ ChildCanStep
  /\ ChildNext("close")
  /\ stdoutOpen' = FALSE
  /\ child' = [child EXCEPT !.script = Tail(@)]
  /\ UNCHANGED <<pc, fs, exc, out, exitCode, clock, result, extractVars,
                 probeVars, searchVars, alarm, startTime, stdoutPipe,
                 stderrPipe, line, log, launched>>

\* The child exits, which closes its streams.
ChildExit ==
  /\ ChildCanStep
  /\ child.script = <<>>
  /\ \E status \in ExitStatuses :
       child' = [child EXCEPT !.state = "exited", !.status = status]
  /\ stdoutOpen' = FALSE
  /\ UNCHANGED <<pc, fs, exc, out, exitCode, clock, result, extractVars,
                 probeVars, searchVars, alarm, startTime, stdoutPipe,
                 stderrPipe, line, log, launched>>

\* The child waits for room in a full pipe.
ChildBlocked ==
  /\ child.state = "running"
  /\ child.script # <<>>
  /\ \/ ChildNext("err") /\ Len(stderrPipe) >= PipeCap
     \/ (ChildNext("out") \/ ChildNext("bad")) /\ stdoutOpen
          /\ Len(stdoutPipe) >= PipeCap

\* run_utility waits in readline for a line or in wait for the exit.
RunnerBlocked ==
  \/ pc = "readline" /\ stdoutPipe = <<>> /\ stdoutOpen
  \/ pc = "wait" /\ child.state = "running"

\* Child and runner wait for each other: nothing happens until the alarm.
Stalled ==
  /\ ChildBlocked
  /\ RunnerBlocked
  /\ alarm # NoAlarm
  /\ clock < alarm
  /\ clock' = alarm
  /\ UNCHANGED <<pc, fs, exc, out, exitCode, result, extractVars, probeVars,
                 searchVars, runVars>>

\* ------------------------------------------------------------------------
\* run_utility under @timer and @timeout              zip_extractor.py 23-50,
\*                                                                   109-123
\* ------------------------------------------------------------------------

\* Line 26: start = time.time()
TimerStart ==
  /\ pc = "timer_start"
  /\ startTime' = clock
  /\ pc' = "timeout_arm"
  /\ UNCHANGED <<fs, exc, out, exitCode, clock, result, extractVars,
                 probeVars, searchVars, alarm, child, stdoutPipe, stdoutOpen,
                 stderrPipe, line, log, launched>>

\* An alarm set for GLOBAL_TIMEOUT seconds after the start of the script.
AlarmTimeFromScriptStart(now) == GLOBAL_TIMEOUT

\* An alarm call that leaves no alarm pending.
AlarmTimeNever(now) == NoAlarm

\* Line 41: signal.alarm(seconds) with seconds = GLOBAL_TIMEOUT, called at
\* time now.
AlarmTime(now) == now + GLOBAL_TIMEOUT

\* Lines 40-41: the handler is installed and the alarm set.
TimeoutArm ==
  /\ pc = "timeout_arm"
  /\ alarm' = AlarmTime(clock)
  /\ pc' = "popen"
  /\ UNCHANGED <<fs, exc, out, exitCode, clock, result, extractVars,
                 probeVars, searchVars, startTime, child, stdoutPipe,
                 stdoutOpen, stderrPipe, line, log, launched>>

\* Line 113: the child is started with both streams piped, or the call
\* raises OSError (a file the kernel will not execute).
RunPopen ==
  /\ pc = "popen"
  /\ ~AlarmDue
  /\ \/ /\ exc' = "OSError"
        /\ pc' = "timeout_finally"
        /\ UNCHANGED <<child, stdoutPipe, stdoutOpen, stderrPipe, launched>>
     \/ /\ \E script \in ChildScripts :
             child' = [state |-> "running", script |-> script, written |-> 0,
                       status |-> NoStatus]
        /\ stdoutPipe' = <<>>
        /\ stdoutOpen' = TRUE
        /\ stderrPipe' = <<>>
        /\ launched' = Append(launched, utility)
        /\ pc' = "loop_open"
        /\ UNCHANGED exc
  /\ UNCHANGED <<fs, out, exitCode, clock, result, extractVars, probeVars,
                 searchVars, alarm, startTime, line, log>>

\* Line 116: the log is opened for appending.
RunOpenLog ==
  /\ pc = "loop_open"
  /\ ~AlarmDue
  /\ pc' = "readline"
  /\ UNCHANGED <<fs, exc, out, exitCode, clock, result, extractVars,
                 probeVars, searchVars, runVars>>

\* Lines 117-119: readline returns the next line of the child's stdout, or
\* nothing at end of stream, which leaves the loop; it blocks otherwise.
RunReadline ==
  /\ pc = "readline"
  /\ ~AlarmDue
  /\ IF stdoutPipe # <<>>
     THEN /\ line' = Head(stdoutPipe)
          /\ stdoutPipe' = Tail(stdoutPipe)
          /\ pc' = "write_line"
     ELSE /\ ~stdoutOpen
          /\ line' = NoLine
          /\ pc' = "wait"
          /\ UNCHANGED stdoutPipe
  /\ UNCHANGED <<fs, exc, out, exitCode, clock, result, extractVars,
                 probeVars, searchVars, alarm, startTime, child, stdoutOpen,
                 stderrPipe, log, launched>>

\* Lines 120-121: the decoded line is written to the log (closed, so
\* flushed, at the end of the with block) and printed; decoding raises for
\* bytes that are no UTF-8.
RunWriteLine ==
  /\ pc = "write_line"
  /\ ~AlarmDue
  /\ IF line.bad
     THEN /\ exc' = "UnicodeDecodeError"
          /\ pc' = "timeout_finally"
          /\ UNCHANGED <<log, out>>
     ELSE /\ log' = Append(log, line.n)
          /\ out' = Append(out, [kind |-> "line", name |-> <<line.n>>])
          /\ pc' = "loop_open"
          /\ UNCHANGED exc
  /\ UNCHANGED <<fs, exitCode, clock, result, extractVars, probeVars,
                 searchVars, alarm, startTime, child, stdoutPipe, stdoutOpen,
                 stderrPipe, line, launched>>

\* A wait that raises for a status other than 0.
WaitChecksStatus(status) == IF status = 0 THEN "None" ELSE "CalledProcessError"

\* Line 123: the value of p.wait(), the exit status, is dropped; the call
\* raises nothing.
WaitOutcome(status) == "None"

\* Line 123: p.wait() returns once the child has exited.
RunWait ==
  /\ pc = "wait"
  /\ ~AlarmDue
  /\ child.state = "exited"
  /\ exc' = WaitOutcome(child.status)
  /\ pc' = "timeout_finally"
  /\ UNCHANGED <<fs, out, exitCode, clock, result, extractVars,
                 probeVars, searchVars, runVars>>

\* Lines 36-37: the alarm goes off while the wrapped call is under way;
\* the handler raises TimeoutError there.
AlarmFires ==
  /\ pc \in {"popen", "loop_open", "readline", "write_line", "wait", "timeout_finally"}
  /\ AlarmDue
  /\ alarm' = NoAlarm
  /\ exc' = "TimeoutError"
  /\ pc' = IF pc = "timeout_finally" THEN "raised" ELSE "timeout_finally"
  /\ UNCHANGED <<fs, out, exitCode, clock, result, extractVars, probeVars,
                 searchVars, startTime, child, stdoutPipe, stdoutOpen,
                 stderrPipe, line, log, launched>>

\* A finally clause that is skipped when the call raised.
DisarmOnReturnOnly(a, e) == IF e = "None" THEN NoAlarm ELSE a

\* Lines 45-46: finally: signal.alarm(0)
Disarm(a, e) == NoAlarm

\* Lines 43-46: the wrapped call is over; the alarm is cancelled on the
\* way out and an exception goes on to the caller.
TimeoutFinally ==
  /\ pc = "timeout_finally"
  /\ ~AlarmDue
  /\ alarm' = Disarm(alarm, exc)
  /\ pc' = IF exc = "None" THEN "timer_end" ELSE "raised"
  /\ UNCHANGED <<fs, exc, out, exitCode, clock, result, extractVars,
                 probeVars, searchVars, startTime, child, stdoutPipe,
                 stdoutOpen, stderrPipe, line, log, launched>>

\* Lines 28-31: reached when the wrapped call returned; the elapsed time
\* is printed.
TimerEnd ==
  /\ pc = "timer_end"
  /\ out' = Append(out, [kind |-> "timer", name |-> <<clock - startTime>>])
  /\ pc' = "loop_break"
  /\ UNCHANGED <<fs, exc, exitCode, clock, result, extractVars, probeVars,
                 searchVars, runVars>>

\* ------------------------------------------------------------------------
\* Specification of extract on its own: called once, in the working
\* directory, with any of FileNames; the file is missing, or holds an
\* archive of OuterArchives, or bytes that are no archive.
\* ------------------------------------------------------------------------

BaseFs == (<<>> :> DirNode) @@ (Cwd :> DirNode)

FsWith(name, bytes) == (Append(Cwd, name) :> FileNode(bytes)) @@ BaseFs

\* The variables of the main block and of run_utility before they are
\* assigned.
Unset == <<"unset">>

IdleMain ==
  /\ version = "unset"
  /\ manufacturer = "unset"
  /\ product_name = Unset
  /\ filenames = <<>>
  /\ utility = Unset
  /\ resIdx = 0
  /\ walkStack = <<>>

IdleRun ==
  /\ alarm = NoAlarm
  /\ startTime = NoTime
  /\ child = NoChild
  /\ stdoutPipe = <<>>
  /\ stdoutOpen = FALSE
  /\ stderrPipe = <<>>
  /\ line = NoLine
  /\ log = <<>>
  /\ launched = <<>>

IdleExtract ==
  /\ z = NoArchive
  /\ idx = 0
  /\ result = NoneResult
  /\ opens = <<>>
  /\ extractCalls = 0
  /\ fsAtCall = fs

InitExtract ==
  /\ pc = "extract"
  /\ filename \in FileNames
  /\ \/ fs = BaseFs
     \/ \E bytes \in OuterArchives \cup {Junk} : fs = FsWith(filename, bytes)
  /\ exc = "None"
  /\ out = <<>>
  /\ exitCode = -1
  /\ clock = 0
  /\ dmiPresent = TRUE
  /\ IdleExtract
  /\ IdleMain
  /\ IdleRun

NextExtract ==
  \/ ExtractBegin
  \/ ExtractOpen
  \/ ExtractScan
  \/ ExtractAll
  \/ ExtractReturn

SpecExtract == InitExtract /\ [][NextExtract]_vars

\* ------------------------------------------------------------------------
\* Specification of the script: started in a working directory holding at
\* most MaxFiles of the files below, on a machine with or without the
\* dmidecode utility.
\* ------------------------------------------------------------------------

X_zip == <<"X", ".", "z", "i", "p">>

X_txt == <<"X", ".", "t", "x", "t">>

X_zipx == <<"X", ".", "z", "i", "p", "x">>

P_U == N_p \o SocflashName

N_q == <<"q", "/">>

Q_U == N_q \o SocflashName

U_bak == SocflashName \o <<".", "b", "a", "k">>

P_U_bak == N_p \o U_bak

Updater == Blob(<<"updater">>)

\* A zip whose only member is the updater.
InnerUpdater == Zip(<<SocflashName>>, (SocflashName :> Updater))

\* Vendor archives: the updater in a directory; at top level; in two
\* directories; inside a nested zip; next to a file named after it; absent.
MainArchives ==
  { Zip(<<N_p, P_U>>, (N_p :> Blob(<<>>)) @@ (P_U :> Updater)),
    Zip(<<SocflashName>>, (SocflashName :> Updater)),
    Zip(<<N_p, P_U, N_q, Q_U>>,
        (N_p :> Blob(<<>>)) @@ (P_U :> Updater) @@ (N_q :> Blob(<<>>))
          @@ (Q_U :> Updater)),
    Zip(<<N_p_izip>>, (N_p_izip :> InnerUpdater)),
    Zip(<<N_p, P_U_bak, P_U>>,
        (N_p :> Blob(<<>>)) @@ (P_U_bak :> Blob(<<"backup">>)) @@ (P_U :> Updater)),
    Zip(<<N_p, N_a>>, (N_p :> Blob(<<>>)) @@ (N_a :> Blob(<<"outer", "a">>))) }

\* The bytes a file of the given name may hold when the script starts.
StartBytes(name) ==
  IF name = X_zip THEN MainArchives \cup {Junk}
  ELSE IF name = F_zip THEN {InnerOne}
  ELSE {Blob(<<"text">>)}

StartNames == {X_zip, X_txt, X_zipx, F_zip}

\* The working directories the script may start in.
StartFilesystems ==
  UNION {{[p \in DOMAIN BaseFs \cup {Append(Cwd, n) : n \in S} |->
             IF p \in DOMAIN BaseFs THEN BaseFs[p]
             ELSE FileNode(bytes[p[Len(p)]])] :
            bytes \in {b \in [S -> UNION {StartBytes(n) : n \in S}] :
                         \A n \in S : b[n] \in StartBytes(n)}} :
         S \in {T \in SUBSET StartNames : Cardinality(T) <= MaxFiles}}

Init ==
  /\ pc = "probe_version"
  /\ fs \in StartFilesystems
  /\ dmiPresent \in BOOLEAN
  /\ filename = Unset
  /\ exc = "None"
  /\ out = <<>>
  /\ exitCode = -1
  /\ clock = 0
  /\ IdleExtract
  /\ IdleMain
  /\ IdleRun

Next ==
  \/ ProbeVersion
  \/ ProbeManufacturer
  \/ ProbeProduct
  \/ MainListing
  \/ MainResolve
  \/ MainFindArchive
  \/ ExtractBegin
  \/ ExtractOpen
  \/ ExtractScan
  \/ ExtractAll
  \/ ExtractReturn
  \/ MainCheckResult
  \/ MainNextRes
  \/ MainWalk
  \/ TimerStart
  \/ TimeoutArm
  \/ RunPopen
  \/ RunOpenLog
  \/ RunReadline
  \/ RunWriteLine
  \/ RunWait
  \/ AlarmFires
  \/ TimeoutFinally
  \/ TimerEnd
  \/ MainBreak
  \/ MainUncaught
  \/ ChildWriteOut
  \/ ChildWriteErr
  \/ ChildSleep
  \/ ChildCloseOut
  \/ ChildExit
  \/ Stalled

Spec == Init /\ [][Next]_vars

\* ------------------------------------------------------------------------
\* Properties of extract
\* ------------------------------------------------------------------------

\* extract has returned a list (the archive was accepted and unpacked).
ExtractReturnedList == pc = "check_result" /\ extractCalls > 0 /\ ~result.none

\* The archive extract was called on, as it was on disk at the call.
ArchiveAtCall == fsAtCall[AbsPath(filename)].data

\* The node the kernel finds for a path string is entry name of archive a:
\* a directory for a directory entry, else a file holding the entry's bytes.
EntryIsAt(f, str, a, name) ==
  LET r == OSLookup(f, str)
  IN /\ r.ok
     /\ IF MemberIsDir(name) THEN f[r.path].kind = "dir"
        ELSE f[r.path].kind = "file" /\ f[r.path].data = a.data[name]

\* The path entry name is written at: the working directory followed by
\* the components of the name other than "", "." and "..".
WrittenAt(name) ==
  Cwd \o SelectSeq(Split(name, "/"),
                   LAMBDA c : c # <<>> /\ c # <<".">> /\ c # <<".", ".">>)

\* The last entry of a written at the same path as entry i.
LastWrittenWith(a, i) ==
  LET same == {j \in 1..Len(a.names) : WrittenAt(a.names[j]) = WrittenAt(a.names[i])}
  IN a.names[CHOOSE j \in same : \A k \in same : k <= j]

\* All prefixes of the paths of a set.
Prefixes(ps) == UNION {{SubSeq(q, 1, k) : k \in 0..Len(q)} : q \in ps}

\* C1 as claimed: after extract returns a list, every entry of the outer
\* archive is found under the working directory at its own entry name,
\* i.e. at the path "cwd/name" (a directory for a directory entry, else a
\* file with the entry's bytes).
C1_EveryEntryAtItsOwnName ==
  ExtractReturnedList =>
    \A i \in 1..Len(ArchiveAtCall.names) :
      EntryIsAt(fs, CwdStr \o <<"/">> \o ArchiveAtCall.names[i],
                ArchiveAtCall, ArchiveAtCall.names[i])

\* C1 as amended: after extract returns a list, every entry of the outer
\* archive, nested zips included, is found under the working directory at
\* its entry name with the components "", "." and ".." removed, holding the
\* bytes of the last entry written at that path; and an archive of plain
\* entries only adds exactly those paths (and their directories) to the
\* filesystem.
C1_EveryEntryAtItsCleanedName ==
  ExtractReturnedList =>
    LET a == ArchiveAtCall
    IN /\ \A i \in 1..Len(a.names) :
            IF MemberIsDir(a.names[i]) THEN IsDirAt(fs, WrittenAt(a.names[i]))
            ELSE /\ IsFileAt(fs, WrittenAt(a.names[i]))
                 /\ fs[WrittenAt(a.names[i])].data = a.data[LastWrittenWith(a, i)]
       /\ (\A i \in 1..Len(a.names) : GuessType(a.names[i]) # ZipType) =>
            DOMAIN fs = DOMAIN fsAtCall
                          \cup Prefixes({WrittenAt(a.names[i]) : i \in 1..Len(a.names)})

\* C1 witness: extract returned for an archive with an entry named ../x
\* and an entry that is a nested zip, both present under the working
\* directory.
C1_Witness ==
  /\ ExtractReturnedList
  /\ \E i, j \in 1..Len(ArchiveAtCall.names) :
       /\ ArchiveAtCall.names[i] = N_up_x
       /\ GuessType(ArchiveAtCall.names[j]) = ZipType
       /\ IsFileAt(fs, WrittenAt(ArchiveAtCall.names[j]))
  /\ IsFileAt(fs, Append(Cwd, <<"x">>))

\* The scan has just unpacked the zip entry before idx.
JustUnpacked ==
  /\ pc = "extract_scan"
  /\ idx > 1
  /\ GuessType(z.names[idx - 1]) = ZipType

\* The directory C2 names for entry d1/.../dk/name.zip: d1/.../dk.
ClaimedDirectory(f) ==
  LET parts == Split(Splitext(f)[1], "/")
  IN AbsPath(Join(SubSeq(parts, 1, Len(parts) - 1), <<"/">>))

\* C2 as claimed: once a zip entry d1/.../dk/name.zip has been handled,
\* the directory d1/.../dk exists and holds every member of the inner
\* archive.
C2_MembersUnderEntryDirectory ==
  JustUnpacked =>
    LET f == z.names[idx - 1]
        inner == z.data[f]
    IN /\ IsDirAt(fs, ClaimedDirectory(f))
       /\ \A m \in Range(inner.names) :
            /\ IsFileAt(fs, ClaimedDirectory(f) \o <<m>>)
            /\ fs[ClaimedDirectory(f) \o <<m>>].data = inner.data[m]

\* C3: extract called with a path not guessed to be a zip returns None,
\* opens no archive and leaves the filesystem as it was.
C3_RejectedPathLeavesNoTrace ==
  (extractCalls > 0 /\ GuessType(filename) # ZipType) =>
    /\ pc = "check_result"
    /\ result.none
    /\ opens = <<>>
    /\ fs = fsAtCall

\* C3 witness: extract has returned for f.txt although the file holds a
\* zip archive with entries.
C3_Witness ==
  /\ pc = "check_result"
  /\ extractCalls = 1
  /\ filename = F_txt
  /\ IsFileAt(fs, Append(Cwd, F_txt))
  /\ fs[Append(Cwd, F_txt)].data.zip
  /\ Len(fs[Append(Cwd, F_txt)].data.names) > 0

\* C4: the returned list has one element per entry of the outer archive's
\* name list, in archive order, element i being cwd + "/" + name i; so no
\* member of a nested archive adds an element.
C4_ResultIsNamelistUnderCwd ==
  ExtractReturnedList =>
    /\ Len(result.paths) = Len(ArchiveAtCall.names)
    /\ \A i \in 1..Len(ArchiveAtCall.names) :
         result.paths[i] = CwdStr \o <<"/">> \o ArchiveAtCall.names[i]

\* C4 witness: a list of two paths was returned for an archive whose first
\* entry is a nested zip that was unpacked.
C4_Witness ==
  /\ ExtractReturnedList
  /\ Len(result.paths) = 2
  /\ Len(opens) = 2
  /\ GuessType(ArchiveAtCall.names[1]) = ZipType
  /\ ArchiveAtCall.names[2] # ArchiveAtCall.names[1]

\* C5 as claimed: every path of a returned list exists on disk when
\* extract returns.
C5_ResultPathsExist ==
  ExtractReturnedList =>
    \A i \in 1..Len(result.paths) : PathExists(fs, result.paths[i])

\* ------------------------------------------------------------------------
\* Properties of the orchestrator
\* ------------------------------------------------------------------------

\* The message of lines 146 and 152 for the given name.
Unsupported(name) == [kind |-> "unsupported", name |-> name]

\* C6: once the vendor has been looked up and is not the vendor of the
\* table, the run is over with exit status 1 and the message naming the
\* vendor as its only output; extract was never called, no archive was
\* opened and the filesystem is as the script found it.
C6_UnsupportedVendorExitsBeforeExtract ==
  (utility # Unset /\ manufacturer # GigabyteVendor) =>
    /\ pc = "terminated"
    /\ exitCode = 1
    /\ out = <<Unsupported(<<manufacturer>>)>>
    /\ extractCalls = 0
    /\ opens = <<>>
    /\ fs = fsAtCall

\* C6 witness: the run ended for a vendor that differs from the table's
\* only in case, while X.zip, a proper archive matching the product, was in
\* the listing.
C6_Witness ==
  /\ pc = "terminated"
  /\ manufacturer = "gigabyte technology co., ltd."
  /\ utility = NoneStr
  /\ product_name = Product_X
  /\ FirstSubstring(filenames, DotZip) > 0
  /\ IsFileAt(fs, Append(Cwd, X_zip))
  /\ fs[Append(Cwd, X_zip)].data.zip

\* The vendor resolved to an updater name.
VendorSupported == utility # Unset /\ utility # NoneStr

\* C7 as claimed: a run with a supported vendor in which no listing token
\* holds the product name, or none of those that do holds ".zip", or
\* extract returned None, ends with exit status 1 and the message naming
\* the product, not with an uncaught exception; and with no token holding
\* the product name extract is never called.
C7_NoArchiveExitsWithProductMessage ==
  /\ (/\ pc = "terminated"
      /\ VendorSupported
      /\ \/ FirstSubstring(filenames, DotZip) = 0
         \/ extractCalls > 0 /\ result.none /\ exc = "None")
       => /\ exitCode = 1
          /\ exc = "None"
          /\ out = <<Unsupported(product_name)>>
  /\ (VendorSupported /\ filenames = <<>>) => extractCalls = 0

\* ------------------------------------------------------------------------
\* Properties of the timed runner
\* ------------------------------------------------------------------------

\* Control is inside the call wrapped by the timeout decorator.
InWrappedRun ==
  pc \in {"popen", "loop_open", "readline", "write_line", "wait", "timeout_finally"}

\* C8: the alarm is set to GLOBAL_TIMEOUT seconds from now when the
\* wrapped run starts, and an alarm is pending only while the wrapped run
\* is under way: none is pending once run_utility has returned or raised,
\* whichever way it ended.
C8_AlarmArmedThenDisarmed ==
  /\ pc = "popen" => alarm = clock + GLOBAL_TIMEOUT
  /\ alarm # NoAlarm => InWrappedRun

\* C8 witness: run_utility has raised an error of the run itself after
\* the alarm was set, and no alarm is pending.
C8_Witness ==
  /\ pc = "raised"
  /\ startTime # NoTime
  /\ exc = "UnicodeDecodeError"
  /\ alarm = NoAlarm

\* run_utility has been called and control has left it.
RunUtilityOver ==
  /\ startTime # NoTime
  /\ pc \in {"loop_break", "for_res", "walk", "raised", "terminated"}

\* C9 as claimed: once the wrapped run is over, however it ended, the
\* elapsed time has been reported.
C9_ElapsedTimeAlwaysReported ==
  RunUtilityOver => \E i \in 1..Len(out) : out[i].kind = "timer"

\* The timeout has elapsed with the updater still running.
TimeoutElapsedChildRunning ==
  /\ InWrappedRun
  /\ startTime # NoTime
  /\ clock >= startTime + GLOBAL_TIMEOUT
  /\ child.state = "running"

\* C10: when GLOBAL_TIMEOUT seconds have passed since run_utility started
\* and the child has not finished, the only way on is TimeoutError raised
\* out of the wrapped run; and a TimeoutError is caught nowhere: it leaves
\* run_utility and ends the process with a traceback and status 1, never
\* with a normal return or status 0.
C10_TimeoutEndsRunAbnormally ==
  /\ [][TimeoutElapsedChildRunning =>
          (exc' = "TimeoutError" /\ pc' \in {"timeout_finally", "raised"})]_vars
  /\ [](exc = "TimeoutError" =>
          /\ pc \in {"timeout_finally", "raised", "terminated"}
          /\ exitCode \in {0 - 1, 1}
          /\ pc = "terminated" =>
               /\ exitCode = 1
               /\ out[Len(out)] = [kind |-> "traceback", name |-> <<"TimeoutError">>])

\* C10 witness: the process ended with the traceback of a TimeoutError,
\* GLOBAL_TIMEOUT seconds after run_utility started, the child of a
\* launched updater still running.
C10_Witness ==
  /\ pc = "terminated"
  /\ exc = "TimeoutError"
  /\ exitCode = 1
  /\ Len(launched) = 1
  /\ child.state = "running"
  /\ clock = startTime + GLOBAL_TIMEOUT


\* ------------------------------------------------------------------------
\* Properties of the output stream and the log
\* ------------------------------------------------------------------------

\* run_utility was ended by the timeout after the updater was started.
InterruptedByTimeout == exc = "TimeoutError" /\ launched # <<>>

\* C11 as claimed: when the timeout has interrupted the run, every
\* decodable line the child has written to its stdout by then is in the
\* log: none is left in the pipe, and the line the runner has read last
\* has been written.
C11_LogHoldsEveryEmittedLine ==
  InterruptedByTimeout =>
    /\ \A i \in 1..Len(stdoutPipe) :
         ~stdoutPipe[i].bad => stdoutPipe[i].n \in Range(log)
    /\ (line # NoLine /\ ~line.bad) => line.n \in Range(log)

\* run_utility has returned normally: the child has exited and its stdout
\* was read to the end.
RunReturnedNormally ==
  /\ startTime # NoTime
  /\ exc = "None"
  /\ pc \in {"timer_end", "loop_break", "for_res", "walk", "terminated"}

\* The lines echoed to the console, in order.
Echoed == SelectSeq(out, LAMBDA m : m.kind = "line")

\* C12 as claimed: after a run whose child ran to completion, every line
\* the child wrote, to stdout or to stderr, is in the log exactly once
\* and was echoed to the console exactly once, in the same order.
C12_CombinedOutputLoggedOnce ==
  RunReturnedNormally =>
    /\ \A n \in 1..child.written :
         Cardinality({i \in 1..Len(log) : log[i] = n}) = 1
    /\ Len(Echoed) = Len(log)
    /\ \A i \in 1..Len(log) : Echoed[i].name = <<log[i]>>

\* ------------------------------------------------------------------------
\* Properties of the end of a run
\* ------------------------------------------------------------------------

\* The process is over and the updater it started has exited.
EndedWithCompletedUpdater == pc = "terminated" /\ child.state = "exited"

C14_AbsentUtilityProbesReturnNone ==
  (~dmiPresent /\ pc # "probe_version") =>
    /\ exc = "None"
    /\ \A k \in valid_keywords : DmidecodeOutcome(k, dmiPresent) = "None"

\* utility holds what get_manufacturer_utility returned: it was assigned at
\* line 144 and not yet replaced by a path at line 160.
UtilityAsResolved ==
  /\ utility # Unset
  /\ \A i \in 1..Len(utility) : utility[i] # "/"

\* C15: get_manufacturer_utility returns socflash_Update.sh for the vendor
\* string "Gigabyte Technology Co., Ltd." and None for every other vendor
\* string, one that differs only in the case of letters included.
C15_OnlyTableVendorResolves ==
  UtilityAsResolved =>
    /\ manufacturer = "Gigabyte Technology Co., Ltd." => utility = SocflashName
    /\ manufacturer # "Gigabyte Technology Co., Ltd." => utility = NoneStr
    /\ SocflashName = <<"s", "o", "c", "f", "l", "a", "s", "h", "_", "U", "p",
                        "d", "a", "t", "e", ".", "s", "h">>

\* C15 witness: the lookup returned None for the vendor string in lower
\* case.
C15_Witness ==
  /\ UtilityAsResolved
  /\ manufacturer = "gigabyte technology co., ltd."
  /\ utility = NoneStr

\* ------------------------------------------------------------------------
\* Properties of the search for the updater
\* ------------------------------------------------------------------------

\* The files under the working directory that are named as the updater of
\* the table.
UpdaterFiles ==
  {p \in DOMAIN fs : /\ Len(p) > Len(Cwd)
                     /\ SubSeq(p, 1, Len(Cwd)) = Cwd
                     /\ fs[p].kind = "file"
                     /\ p[Len(p)] = SocflashName}

\* C16 as claimed: a run with a supported vendor and a list returned by
\* extract that came to its end, with a file named as the updater
\* somewhere under the working directory, has made such a file 0o775 and
\* launched it.
C16_UpdaterInTreeIsLaunched ==
  (pc = "terminated" /\ exitCode = 0 /\ ~result.none /\ UpdaterFiles # {}) =>
    \E p \in UpdaterFiles :
      /\ fs[p].mode = Mode775
      /\ Len(launched) > 0
      /\ AbsPath(launched[1]) = p

\* The files that were made 0o775.
MadeExecutable == {p \in DOMAIN fs : fs[p].kind = "file" /\ fs[p].mode = Mode775}

RECURSIVE PathString(_)
\* The absolute path string of a node of the filesystem.
PathString(p) ==
  IF p = <<>> THEN <<>>
  ELSE PathString(SubSeq(p, 1, Len(p) - 1)) \o <<"/">> \o p[Len(p)]

\* C17: in one run of the script the updater is launched at most once and
\* at most one file is made executable, the launched one; and once it was
\* launched the name searched for matches no file any more.
C17_LaunchedAtMostOnce ==
  /\ Len(launched) <= 1
  /\ Cardinality(MadeExecutable) <= 1
  /\ launched # <<>> =>
       /\ \E p \in MadeExecutable : PathString(p) = launched[1]
       /\ \A p \in DOMAIN fs : p = <<>> \/ p[Len(p)] # utility

\* C17 witness: the script came to its end after one launch, with the
\* updater's name in two directories, both of them elements of the result
\* and the second one reached by the loop after the launch.
C17_Witness ==
  /\ pc = "terminated"
  /\ exitCode = 0
  /\ Len(launched) = 1
  /\ Cardinality(UpdaterFiles) = 2
  /\ Cardinality({i \in 1..Len(result.paths) : PathIsDir(fs, result.paths[i])}) = 2
  /\ resIdx > Len(result.paths)

\* ------------------------------------------------------------------------
\* Properties of the time budget
\* ------------------------------------------------------------------------

\* C18 as claimed: the updater's deadline is the script's: the alarm is
\* due GLOBAL_TIMEOUT seconds after the script started (time 0), so that
\* the updater may run for GLOBAL_TIMEOUT less the time spent before it.
C18_UpdaterBudgetIsWhatIsLeft ==
  alarm # NoAlarm => alarm - startTime = GLOBAL_TIMEOUT - startTime

\* C18 as amended: the alarm is due GLOBAL_TIMEOUT seconds after
\* run_utility was entered, whatever time the probes and the listing have
\* taken, and a TimeoutError is raised no earlier than that.
C18_UpdaterHasItsOwnBudget ==
  /\ alarm # NoAlarm => alarm = startTime + GLOBAL_TIMEOUT
  /\ exc = "TimeoutError" => clock >= startTime + GLOBAL_TIMEOUT

\* C18 witness: the updater was timed out GLOBAL_TIMEOUT seconds after it
\* was started, later than GLOBAL_TIMEOUT seconds after the script
\* started, the probes and the listing having taken time.
C18_Witness ==
  /\ exc = "TimeoutError"
  /\ pc = "timeout_finally"
  /\ startTime > 0
  /\ clock = startTime + GLOBAL_TIMEOUT

\* ------------------------------------------------------------------------
\* Properties of the depth of unpacking
\* ------------------------------------------------------------------------

\* The members of inner archive a that are archives themselves.
ArchiveMembers(a) == {m \in Range(a.names) : a.data[m].zip}

\* The names of the members of the archives two levels below archive a.
DeepMemberNames(a) ==
  UNION {UNION {Range(a.data[f].data[m].names) : m \in ArchiveMembers(a.data[f])} :
           f \in {g \in Range(a.names) : a.data[g].zip}}

\* C19: only the outer archive and entries of it are ever opened as
\* archives; a member of an inner archive that is an archive itself lies
\* as a file with its bytes in the directory the inner archive was
\* unpacked into, and nothing extract has created is a member of such an
\* archive.
C19_OnlyOneLevelUnpacked ==
  /\ z # NoArchive =>
       /\ \A i \in 1..Len(opens) : opens[i] = filename \/ opens[i] \in Range(z.names)
       /\ \A p \in (DOMAIN fs) \ (DOMAIN fsAtCall) : p[Len(p)] \notin DeepMemberNames(z)
  /\ JustUnpacked =>
       LET f == z.names[idx - 1]
           inner == z.data[f]
       IN \A m \in ArchiveMembers(inner) :
            /\ IsFileAt(fs, AbsPath(Dirname(f)) \o <<m>>)
            /\ fs[AbsPath(Dirname(f)) \o <<m>>].data = inner.data[m]

\* C19 witness: extract has returned for an outer archive with a zip entry
\* whose member d.zip is an archive with a member of its own; d.zip lies in
\* the working directory as a file holding that archive.
C19_Witness ==
  /\ ExtractReturnedList
  /\ \E f \in Range(z.names) :
       /\ GuessType(f) = ZipType
       /\ N_dzip \in ArchiveMembers(z.data[f])
       /\ Dirname(f) = <<>>
  /\ IsFileAt(fs, Append(Cwd, N_dzip))
  /\ fs[Append(Cwd, N_dzip)].data = DeepZip
  /\ DeepMemberNames(z) = {N_z}

\* ------------------------------------------------------------------------
\* Properties of the runner's progress
\* ------------------------------------------------------------------------

\* C20 as claimed: the runner never keeps the child from finishing: the
\* child is never waiting for room in a pipe while the runner waits for a
\* line or for the child's exit, so that only the timeout can end the
\* run.
C20_RunnerNeverStallsChild == ~(ChildBlocked /\ RunnerBlocked)
====
